---- MODULE Spec2Model ----
(***************************************************************************)
(* The search index queue of backend/src/search/update.rs: update_index    *)
(* drains search_index_queue in chunks under the write lock, and           *)
(* MeiliWriter::update reconciles one kind's ids against the database and  *)
(* the Meili index of that kind; update_index_daemon repeats update_index  *)
(* at the configured interval.                                             *)
(***************************************************************************)
EXTENDS Integers, Sequences, FiniteSets, TLC

\* ---- bounds of the model ----
MaxKey == 2
MaxWrites == 3
MaxFails == 1
MaxInterval == 2
MaxDrain == 3
MaxIter == 3

\* const CHUNK_SIZE: u32 = 5000, scaled down so that full chunks occur.
CHUNK_SIZE == 2

Kinds == {"realm", "event"}
Keys == 1..MaxKey
\* The callers of update_index: the daemon and a manual trigger.
Callers == {"daemon", "manual"}
NoCaller == "none"
\* An entity's content: 0 is "no such entity", s > 0 is the content the
\* s-th write gave it.
NoEntity == 0

VARIABLES
    db,         \* db[k][id]: the entity of kind k with key id in the database
    index,      \* index[k][id]: the document of the kind's Meili index
    queue,      \* search_index_queue, in the order of its id column
    nextSeq,    \* the next value of the queue's id column
    marked,     \* the (kind, item_id) pairs that ever had a marker
    fails,      \* failures injected so far
    lock,       \* holder of the write lock
    pc,         \* each caller's position in update_index
    cur,        \* the kind whose meili.update call a caller is in
    batch,      \* the rows a caller's sub-cycle read from the queue
    items,      \* the loader's result inside meili.update
    calls,      \* the index calls accepted in a caller's current sub-cycle
    loads,      \* the kinds whose loader was called in the current sub-cycle
    st,         \* how the current sub-cycle stands
    qread,      \* the queue as it was when the sub-cycle read it
    n,          \* sub-cycles started in the current update_index call
    first,      \* nextSeq and queue length at the call's first queue read,
                \* and nextSeq at the current sub-cycle's queue read
    lastFail,   \* the batch of the last sub-cycle an index call failed in
    ixread,     \* the index as it was when the sub-cycle read the queue
    \* update_index_daemon, with update_index as one call:
    dpc,                \* the daemon's position in its loop
    now,                \* the monotonic clock
    update_interval,    \* meili.config.update_interval
    loop_started_at,    \* Instant::now() at the top of the iteration
    prev_started_at,    \* loop_started_at of the iteration before
    drained_at,         \* the clock when update_index returned
    next_update_in,     \* the duration handed to tokio::time::sleep
    result,             \* what the last update_index call returned
    iters,              \* iterations started
    sleeps              \* sleeps finished

qvars == <<db, index, queue, nextSeq, marked, fails, lock, pc, cur, batch,
           items, calls, loads, st, qread, n, first, lastFail, ixread>>

dvars == <<dpc, now, update_interval, loop_started_at, prev_started_at,
           drained_at, next_update_in, result, iters, sleeps>>

vars == <<qvars, dvars>>

subVars == <<cur, batch, items, calls, loads, qread, n, first>>

\* ---- helpers ----
Range(s) == {s[j] : j \in 1..Len(s)}

Min(a, b) == IF a < b THEN a ELSE b

IsPrefix(s, t) == Len(s) <= Len(t) /\ SubSeq(t, 1, Len(s)) = s

Marker(s, k, id) == [seq |-> s, kind |-> k, item_id |-> id]

\* The limit one too low.
SelectChunkShort(q) == SubSeq(q, 1, Min(Len(q), CHUNK_SIZE - 1))

\* select item_id, kind from search_index_queue order by id limit CHUNK_SIZE
SelectChunk(q) == SubSeq(q, 1, Min(Len(q), CHUNK_SIZE))

\* The match on kind that pushes each row's key to realm_ids or event_ids.
IdsOfKind(rows, k) ==
    LET sel == SelectSeq(rows, LAMBDA m : m.kind = k)
    IN  [j \in 1..Len(sel) |-> sel[j].item_id]

\* let count = event_ids.len() + realm_ids.len();
Count(rows) == Len(IdsOfKind(rows, "event")) + Len(IdsOfKind(rows, "realm"))

\* T::load_by_ids: the entities among ids that exist, each once.
LoadByIds(k, ids) ==
    {<<id, db[k][id]>> : id \in {x \in Range(ids) : db[k][x] # NoEntity}}

\* existing_item_ids: the keys of the loaded items.
ExistingItemIds(its) == {it[1] : it \in its}

\* deleted_items without its filter: every requested id.
DeletedItemsUnfiltered(ids, its) == ids

\* deleted_items: ids, in order, filtered by !existing_item_ids.contains(id).
DeletedItems(ids, its) == SelectSeq(ids, LAMBDA id : id \notin ExistingItemIds(its))

\* index.delete_documents(&deleted_items), once accepted.
DeleteDocuments(ix, k, ids) ==
    [ix EXCEPT ![k] = [id \in Keys |-> IF id \in Range(ids) THEN NoEntity ELSE ix[k][id]]]

\* index.add_documents(&items, None), once accepted.
AddDocuments(ix, k, its) ==
    [ix EXCEPT ![k] = [id \in Keys |->
        IF id \in ExistingItemIds(its)
        THEN (CHOOSE it \in its : it[1] = id)[2]
        ELSE ix[k][id]]]

\* The where clause with its kinds dropped: any row with a read item_id goes.
DeleteWhereAnyKind(q, rids, eids) ==
    SelectSeq(q, LAMBDA m : m.item_id \notin (Range(rids) \cup Range(eids)))

\* The two id arrays bound to the wrong parameters.
DeleteWhereSwapped(q, rids, eids) ==
    SelectSeq(q, LAMBDA m :
        ~ (  (m.item_id \in Range(eids) /\ m.kind = "realm")
          \/ (m.item_id \in Range(rids) /\ m.kind = "event")))

\* delete from search_index_queue where item_id = any($1) and kind = 'realm'
\*                                   or item_id = any($2) and kind = 'event'
DeleteWhere(q, rids, eids) ==
    SelectSeq(q, LAMBDA m :
        ~ (  (m.item_id \in Range(rids) /\ m.kind = "realm")
          \/ (m.item_id \in Range(eids) /\ m.kind = "event")))

\* The comparison off by one: count <= CHUNK_SIZE.
DoneOffByOne(rows) == Count(rows) <= CHUNK_SIZE

\* Ok(count < CHUNK_SIZE as usize)
Done(rows) == Count(rows) < CHUNK_SIZE

\* A match that picks the realm index for every kind.
IndexOfAlwaysRealm(k) == "realm"

\* let index = match kind { Realm => &self.realm_index, Event => &self.event_index }
IndexOf(k) == k

IndexCall(k, op, ids, its) == [kind |-> k, op |-> op, ids |-> ids, docs |-> its]

NoIndex == [k \in Kinds |-> [id \in Keys |-> NoEntity]]

\* The daemon before its first iteration, configured with interval i.
DaemonVarsInit(i) ==
    /\ dpc = "top"
    /\ now = 0
    /\ update_interval = i
    /\ loop_started_at = 0
    /\ prev_started_at = 0
    /\ drained_at = 0
    /\ next_update_in = 0
    /\ result = "none"
    /\ iters = 0
    /\ sleeps = 0

QueueInit ==
    /\ db = [k \in Kinds |-> [id \in Keys |-> NoEntity]]
    /\ index = [k \in Kinds |-> [id \in Keys |-> NoEntity]]
    /\ queue = <<>>
    /\ nextSeq = 1
    /\ marked = {}
    /\ fails = 0
    /\ lock = NoCaller
    /\ pc = [c \in Callers |-> "idle"]
    /\ cur = [c \in Callers |-> "realm"]
    /\ batch = [c \in Callers |-> <<>>]
    /\ items = [c \in Callers |-> {}]
    /\ calls = [c \in Callers |-> <<>>]
    /\ loads = [c \in Callers |-> {}]
    /\ st = [c \in Callers |-> "none"]
    /\ qread = [c \in Callers |-> <<>>]
    /\ n = [c \in Callers |-> 0]
    /\ first = [c \in Callers |-> <<0, 0, 0>>]
    /\ lastFail = <<>>
    /\ ixread = [c \in Callers |-> NoIndex]

Init == QueueInit /\ DaemonVarsInit(MaxInterval)

\* ---- the writers of the database ----
\* A change of an entity (created or updated with new content, or deleted)
\* inserts a marker for it in the same step.
Write(k, id, gone) ==
    /\ nextSeq <= MaxWrites
    /\ db' = [db EXCEPT ![k][id] = IF gone THEN NoEntity ELSE nextSeq]
    /\ queue' = Append(queue, Marker(nextSeq, k, id))
    /\ nextSeq' = nextSeq + 1
    /\ marked' = marked \cup {<<k, id>>}
    /\ UNCHANGED <<index, fails, lock, pc, st, lastFail>>
    /\ UNCHANGED subVars
    /\ UNCHANGED <<ixread, dvars>>

\* ---- update_index ----
\* A caller enters update_index.
Start(c) ==
    /\ pc[c] = "idle"
    /\ pc' = [pc EXCEPT ![c] = "lock"]
    /\ n' = [n EXCEPT ![c] = 0]
    /\ UNCHANGED <<db, index, queue, nextSeq, marked, fails, lock, cur, batch,
                   items, calls, loads, st, qread, first, lastFail>>
    /\ UNCHANGED <<ixread, dvars>>

\* A lock that never refuses.
LockAlwaysFree == TRUE

\* writer::with_write_lock grants the write lock to one caller at a time.
LockFree == lock = NoCaller

Acquire(c) ==
    /\ pc[c] = "lock"
    /\ LockFree
    /\ lock' = c
    /\ pc' = [pc EXCEPT ![c] = "read"]
    /\ st' = [st EXCEPT ![c] = "run"]
    /\ n' = [n EXCEPT ![c] = n[c] + 1]
    /\ UNCHANGED <<db, index, queue, nextSeq, marked, fails, cur, batch,
                   items, calls, loads, qread, first, lastFail>>
    /\ UNCHANGED <<ixread, dvars>>

\* The sub-cycle fails with `what`: the closure returns Err.
Fail(c, what) ==
    /\ fails < MaxFails
    /\ fails' = fails + 1
    /\ st' = [st EXCEPT ![c] = what]
    /\ pc' = [pc EXCEPT ![c] = "release"]

\* tx.query_raw(..) and the partition of its rows.
ReadQueue(c) ==
    /\ pc[c] = "read"
    /\ batch' = [batch EXCEPT ![c] = SelectChunk(queue)]
    /\ qread' = [qread EXCEPT ![c] = queue]
    /\ first' = [first EXCEPT ![c] = IF n[c] = 1
                                     THEN <<nextSeq, Len(queue), nextSeq>>
                                     ELSE <<@[1], @[2], nextSeq>>]
    /\ ixread' = [ixread EXCEPT ![c] = index]
    /\ calls' = [calls EXCEPT ![c] = <<>>]
    /\ loads' = [loads EXCEPT ![c] = {}]
    /\ items' = [items EXCEPT ![c] = {}]
    /\ cur' = [cur EXCEPT ![c] = "realm"]
    /\ lastFail' = <<>>
    /\ IF Count(SelectChunk(queue)) = 0
       THEN /\ st' = [st EXCEPT ![c] = "ok"]
            /\ pc' = [pc EXCEPT ![c] = "release"]
       ELSE /\ st' = st
            /\ pc' = [pc EXCEPT ![c] = "load"]
    /\ UNCHANGED <<db, index, queue, nextSeq, marked, fails, lock, n>>
    /\ UNCHANGED dvars

ReadQueueFail(c) ==
    /\ pc[c] = "read"
    /\ Fail(c, "readfail")
    /\ UNCHANGED <<db, index, queue, nextSeq, marked, lock, lastFail>>
    /\ UNCHANGED subVars
    /\ UNCHANGED <<ixread, dvars>>

\* The position after meili.update for kind k returned Ok.
AfterUpdate(c, k) ==
    IF k = "realm"
    THEN /\ cur' = [cur EXCEPT ![c] = "event"]
         /\ pc' = [pc EXCEPT ![c] = "load"]
    ELSE /\ cur' = cur
         /\ pc' = [pc EXCEPT ![c] = "qdel"]

\* update without its `if ids.is_empty()` return.
LoadNoEmptyCheck(c) ==
    /\ pc[c] = "load"
    /\ items' = [items EXCEPT ![c] = LoadByIds(cur[c], IdsOfKind(batch[c], cur[c]))]
    /\ loads' = [loads EXCEPT ![c] = @ \cup {cur[c]}]
    /\ pc' = [pc EXCEPT ![c] = "delete"]
    /\ UNCHANGED <<db, index, queue, nextSeq, marked, fails, lock, cur, batch,
                   calls, st, qread, n, first, lastFail>>
    /\ UNCHANGED <<ixread, dvars>>

\* MeiliWriter::update up to the loader's answer.
Load(c) ==
    /\ pc[c] = "load"
    /\ LET ids == IdsOfKind(batch[c], cur[c])
       IN  IF ids = <<>>
           THEN /\ AfterUpdate(c, cur[c])
                /\ UNCHANGED <<items, loads>>
           ELSE /\ items' = [items EXCEPT ![c] = LoadByIds(cur[c], ids)]
                /\ loads' = [loads EXCEPT ![c] = @ \cup {cur[c]}]
                /\ pc' = [pc EXCEPT ![c] = "delete"]
                /\ cur' = cur
    /\ UNCHANGED <<db, index, queue, nextSeq, marked, fails, lock, batch,
                   calls, st, qread, n, first, lastFail>>
    /\ UNCHANGED <<ixread, dvars>>

\* A loader error after which the requested ids are deleted from the index
\* as if none of them existed.
LoadFailActedOn(c) ==
    /\ pc[c] = "load"
    /\ IdsOfKind(batch[c], cur[c]) # <<>>
    /\ Fail(c, "loadfail")
    /\ loads' = [loads EXCEPT ![c] = @ \cup {cur[c]}]
    /\ index' = DeleteDocuments(index, IndexOf(cur[c]), IdsOfKind(batch[c], cur[c]))
    /\ calls' = [calls EXCEPT ![c] = Append(@,
                    IndexCall(IndexOf(cur[c]), "delete", IdsOfKind(batch[c], cur[c]), {}))]
    /\ UNCHANGED <<db, queue, nextSeq, marked, lock, cur, batch, items,
                   qread, n, first, lastFail>>
    /\ UNCHANGED <<ixread, dvars>>

LoadFail(c) ==
    /\ pc[c] = "load"
    /\ IdsOfKind(batch[c], cur[c]) # <<>>
    /\ Fail(c, "loadfail")
    /\ loads' = [loads EXCEPT ![c] = @ \cup {cur[c]}]
    /\ UNCHANGED <<db, index, queue, nextSeq, marked, lock, cur, batch, items,
                   calls, qread, n, first, lastFail>>
    /\ UNCHANGED <<ixread, dvars>>

\* if !deleted_items.is_empty() { index.delete_documents(&deleted_items) }
DeleteDocs(c) ==
    /\ pc[c] = "delete"
    /\ LET del == DeletedItems(IdsOfKind(batch[c], cur[c]), items[c])
       IN  IF del = <<>>
           THEN UNCHANGED <<index, calls>>
           ELSE /\ index' = DeleteDocuments(index, IndexOf(cur[c]), del)
                /\ calls' = [calls EXCEPT ![c] =
                                Append(@, IndexCall(IndexOf(cur[c]), "delete", del, {}))]
    /\ pc' = [pc EXCEPT ![c] = "add"]
    /\ UNCHANGED <<db, queue, nextSeq, marked, fails, lock, cur, batch, items,
                   loads, st, qread, n, first, lastFail>>
    /\ UNCHANGED <<ixread, dvars>>

\* A delete_documents error that is returned only after add_documents ran.
DeleteDocsFailThenAdd(c) ==
    /\ pc[c] = "delete"
    /\ DeletedItems(IdsOfKind(batch[c], cur[c]), items[c]) # <<>>
    /\ Fail(c, "indexfail")
    /\ lastFail' = batch[c]
    /\ index' = AddDocuments(index, IndexOf(cur[c]), items[c])
    /\ calls' = [calls EXCEPT ![c] =
                    Append(@, IndexCall(IndexOf(cur[c]), "add", <<>>, items[c]))]
    /\ UNCHANGED <<db, queue, nextSeq, marked, lock, cur, batch, items, loads,
                   qread, n, first>>
    /\ UNCHANGED <<ixread, dvars>>

DeleteDocsFail(c) ==
    /\ pc[c] = "delete"
    /\ DeletedItems(IdsOfKind(batch[c], cur[c]), items[c]) # <<>>
    /\ Fail(c, "indexfail")
    /\ lastFail' = batch[c]
    /\ UNCHANGED <<db, index, queue, nextSeq, marked, lock>>
    /\ UNCHANGED subVars
    /\ UNCHANGED <<ixread, dvars>>

\* add_documents without its `if !items.is_empty()`.
AddDocsUnguarded(c) ==
    /\ pc[c] = "add"
    /\ index' = AddDocuments(index, IndexOf(cur[c]), items[c])
    /\ calls' = [calls EXCEPT ![c] =
                    Append(@, IndexCall(IndexOf(cur[c]), "add", <<>>, items[c]))]
    /\ AfterUpdate(c, cur[c])
    /\ UNCHANGED <<db, queue, nextSeq, marked, fails, lock, batch, items,
                   loads, st, qread, n, first, lastFail>>
    /\ UNCHANGED <<ixread, dvars>>

\* add_documents followed at once by the removal of that kind's markers.
AddDocsEager(c) ==
    /\ pc[c] = "add"
    /\ IF items[c] = {}
       THEN UNCHANGED <<index, calls>>
       ELSE /\ index' = AddDocuments(index, IndexOf(cur[c]), items[c])
            /\ calls' = [calls EXCEPT ![c] =
                            Append(@, IndexCall(IndexOf(cur[c]), "add", <<>>, items[c]))]
    /\ queue' = SelectSeq(queue, LAMBDA m :
                    ~ (m.kind = cur[c] /\ m.item_id \in Range(IdsOfKind(batch[c], cur[c]))))
    /\ AfterUpdate(c, cur[c])
    /\ UNCHANGED <<db, nextSeq, marked, fails, lock, batch, items,
                   loads, st, qread, n, first, lastFail>>
    /\ UNCHANGED <<ixread, dvars>>

\* if !items.is_empty() { index.add_documents(&items, None) }
AddDocs(c) ==
    /\ pc[c] = "add"
    /\ IF items[c] = {}
       THEN UNCHANGED <<index, calls>>
       ELSE /\ index' = AddDocuments(index, IndexOf(cur[c]), items[c])
            /\ calls' = [calls EXCEPT ![c] =
                            Append(@, IndexCall(IndexOf(cur[c]), "add", <<>>, items[c]))]
    /\ AfterUpdate(c, cur[c])
    /\ UNCHANGED <<db, queue, nextSeq, marked, fails, lock, batch, items,
                   loads, st, qread, n, first, lastFail>>
    /\ UNCHANGED <<ixread, dvars>>

AddDocsFail(c) ==
    /\ pc[c] = "add"
    /\ items[c] # {}
    /\ Fail(c, "indexfail")
    /\ lastFail' = batch[c]
    /\ UNCHANGED <<db, index, queue, nextSeq, marked, lock>>
    /\ UNCHANGED subVars
    /\ UNCHANGED <<ixread, dvars>>

\* tx.execute(sql, &[&realm_ids, &event_ids]) and the closure's Ok(..).
DeleteMarkers(c) ==
    /\ pc[c] = "qdel"
    /\ queue' = DeleteWhere(queue, IdsOfKind(batch[c], "realm"),
                                   IdsOfKind(batch[c], "event"))
    /\ st' = [st EXCEPT ![c] = "ok"]
    /\ pc' = [pc EXCEPT ![c] = "release"]
    /\ UNCHANGED <<db, index, nextSeq, marked, fails, lock, lastFail>>
    /\ UNCHANGED subVars
    /\ UNCHANGED <<ixread, dvars>>

DeleteMarkersFail(c) ==
    /\ pc[c] = "qdel"
    /\ Fail(c, "delfail")
    /\ UNCHANGED <<db, index, queue, nextSeq, marked, lock, lastFail>>
    /\ UNCHANGED subVars
    /\ UNCHANGED <<ixread, dvars>>

\* done taken from the number of rows deleted instead of the number read.
AfterSubCycleByAffected(c) ==
    IF st[c] = "ok"
       /\ ~ (Len(qread[c]) + (nextSeq - first[c][3]) - Len(queue) < CHUNK_SIZE)
    THEN "lock" ELSE "idle"

\* The position after with_write_lock(..).await? : break, loop or return Err.
AfterSubCycle(c) ==
    IF st[c] = "ok" /\ ~ Done(batch[c]) THEN "lock" ELSE "idle"

\* A lock that is freed only when the closure returned Ok.
ReleasedLockOnOkOnly(c, ok) == IF ok THEN NoCaller ELSE c

\* The holder of the lock once with_write_lock has returned to c, with Ok or
\* with Err: nobody.
ReleasedLock(c, ok) == NoCaller

\* with_write_lock returns: the lock is free again.
Release(c) ==
    /\ pc[c] = "release"
    /\ lock' = ReleasedLock(c, st[c] = "ok")
    /\ pc' = [pc EXCEPT ![c] = AfterSubCycle(c)]
    /\ batch' = [batch EXCEPT ![c] = <<>>]
    /\ qread' = [qread EXCEPT ![c] = <<>>]
    /\ items' = [items EXCEPT ![c] = {}]
    /\ calls' = [calls EXCEPT ![c] = <<>>]
    /\ loads' = [loads EXCEPT ![c] = {}]
    /\ cur' = [cur EXCEPT ![c] = "realm"]
    /\ st' = [st EXCEPT ![c] = "none"]
    /\ n' = [n EXCEPT ![c] = IF AfterSubCycle(c) = "idle" THEN 0 ELSE @]
    /\ first' = [first EXCEPT ![c] = IF AfterSubCycle(c) = "idle"
                                     THEN <<0, 0, 0>> ELSE <<@[1], @[2], 0>>]
    /\ ixread' = [ixread EXCEPT ![c] = NoIndex]
    /\ UNCHANGED <<db, index, queue, nextSeq, marked, fails, lastFail>>
    /\ UNCHANGED dvars

Next ==
    \/ \E k \in Kinds, id \in Keys, gone \in BOOLEAN : Write(k, id, gone)
    \/ \E c \in Callers : Start(c)
    \/ \E c \in Callers : Acquire(c)
    \/ \E c \in Callers : ReadQueue(c)
    \/ \E c \in Callers : ReadQueueFail(c)
    \/ \E c \in Callers : Load(c)
    \/ \E c \in Callers : LoadFail(c)
    \/ \E c \in Callers : DeleteDocs(c)
    \/ \E c \in Callers : DeleteDocsFail(c)
    \/ \E c \in Callers : AddDocs(c)
    \/ \E c \in Callers : AddDocsFail(c)
    \/ \E c \in Callers : DeleteMarkers(c)
    \/ \E c \in Callers : DeleteMarkersFail(c)
    \/ \E c \in Callers : Release(c)

Spec == Init /\ [][Next]_vars

\* ---- what a sub-cycle has done so far ----
InSubCycle == {"read", "load", "delete", "add", "qdel", "release"}

CallsOf(c, k) == SelectSeq(calls[c], LAMBDA x : x.kind = k)

\* An accepted call of kind k's index client names id.
Names(x, id) == id \in Range(x.ids) \/ id \in ExistingItemIds(x.docs)

\* The Reconciler ran for (k, id) in c's sub-cycle and its calls were accepted.
Reconciled(c, k, id) ==
    /\ st[c] = "run"
    /\ k \in loads[c]
    /\ id \in Range(IdsOfKind(batch[c], k))
    /\ \E j \in 1..Len(calls[c]) : calls[c][j].kind = k /\ Names(calls[c][j], id)

\* The markers of q that q2 no longer holds.
Removed(q, q2) == Range(q) \ Range(q2)

\* C1: a marker leaves the queue only in the queue deletion of a sub-cycle that
\* holds the lock, in which the Reconciler ran for the marker's kind with its
\* item_id, and after every index call of that sub-cycle was accepted.
C1_RemovedOnlyAfterAccepted ==
    [][\A m \in Removed(queue, queue') :
         \E c \in Callers :
            /\ pc[c] = "qdel" /\ pc'[c] = "release" /\ lock = c
            /\ Reconciled(c, m.kind, m.item_id)
            /\ \A k \in Kinds : IdsOfKind(batch[c], k) # <<>> => k \in loads[c]]_vars

\* A sub-cycle has removed markers after its index calls were accepted.
C1_Witness ==
    \E c \in Callers :
        /\ pc[c] = "release" /\ st[c] = "ok"
        /\ Removed(qread[c], queue) # {}
        /\ calls[c] # <<>>

\* C2: when an index call fails in a sub-cycle, the queue still begins with
\* everything it held when the sub-cycle read it (nothing was deleted, also not
\* for the kind already reconciled), and the next queue read returns the failed
\* sub-cycle's batch again, so the Reconciler gets the same identifiers.
C2_IndexFailureKeepsMarkers ==
    /\ [](\A c \in Callers : st[c] = "indexfail" => IsPrefix(qread[c], queue))
    /\ [][\A c \in Callers :
            (pc[c] = "read" /\ pc'[c] \in {"load", "release"} /\ st'[c] # "readfail")
                => /\ IsPrefix(lastFail, batch'[c])
                   /\ \A k \in Kinds :
                        IsPrefix(IdsOfKind(lastFail, k), IdsOfKind(batch'[c], k))]_vars

\* The event index call failed after the realm call of the same sub-cycle was
\* accepted.
C2_Witness ==
    \E c \in Callers :
        /\ st[c] = "indexfail" /\ cur[c] = "event"
        /\ CallsOf(c, "realm") # <<>>
        /\ lastFail = batch[c]

\* C3: when the entity loader fails in a sub-cycle, the queue still begins with
\* everything it held when the sub-cycle read it: no marker was deleted.
C3_LoaderFailureKeepsMarkers ==
    \A c \in Callers : st[c] = "loadfail" => IsPrefix(qread[c], queue)

\* The event loader failed after the realms of the same sub-cycle were sent.
C3_Witness ==
    \E c \in Callers :
        /\ st[c] = "loadfail" /\ cur[c] = "event"
        /\ CallsOf(c, "realm") # <<>>
        /\ Len(batch[c]) = CHUNK_SIZE


\* ---- the Reconciler's calls ----
\* meili.update for kind k has returned Ok in c's sub-cycle, and items[c] is
\* still what its loader returned.
Returned(c, k) ==
    /\ k \in loads[c]
    /\ IF k = "realm" THEN pc[c] = "load" /\ cur[c] = "event"
                      ELSE pc[c] = "qdel"

Requested(c, k) == Range(IdsOfKind(batch[c], k))

Loaded(c) == ExistingItemIds(items[c])

CallsWithOp(c, k, op) == SelectSeq(calls[c], LAMBDA x : x.kind = k /\ x.op = op)

\* C4: a successful reconcile of a non-empty id list issues to its kind's index
\* exactly one delete for the requested ids the loader did not return (none if
\* there is no such id), one upsert of exactly the loaded entities (none if
\* nothing was loaded), and nothing else.
C4_ExactCalls ==
    \A c \in Callers, k \in Kinds :
        Returned(c, k) =>
            LET missing == Requested(c, k) \ Loaded(c)
                dels == CallsWithOp(c, k, "delete")
                adds == CallsWithOp(c, k, "add")
            IN  /\ Len(dels) = (IF missing # {} THEN 1 ELSE 0)
                /\ Len(adds) = (IF items[c] # {} THEN 1 ELSE 0)
                /\ Len(CallsOf(c, k)) = Len(dels) + Len(adds)
                /\ missing # {} => Range(dels[1].ids) = missing
                /\ items[c] # {} => adds[1].docs = items[c]
                /\ Loaded(c) \subseteq Requested(c, k)

\* A reconcile returned after a delete of one requested id and an upsert of
\* another.
C4_Witness ==
    \E c \in Callers, k \in Kinds :
        /\ Returned(c, k)
        /\ Len(CallsWithOp(c, k, "delete")) = 1
        /\ Len(CallsWithOp(c, k, "add")) = 1

InUpsert(c, k, id) ==
    \E j \in 1..Len(calls[c]) :
        /\ calls[c][j].kind = k /\ calls[c][j].op = "add"
        /\ id \in ExistingItemIds(calls[c][j].docs)

InDelete(c, k, id) ==
    \E j \in 1..Len(calls[c]) :
        /\ calls[c][j].kind = k /\ calls[c][j].op = "delete"
        /\ id \in Range(calls[c][j].ids)

\* C5: after a successful reconcile every requested key is in the upsert batch
\* if the loader returned its entity and in the delete batch otherwise, never
\* in both and never in neither, and no other key is in either batch.
C5_OneOutcomePerKey ==
    \A c \in Callers, k \in Kinds :
        Returned(c, k) =>
            \A id \in Keys :
                IF id \in Requested(c, k)
                THEN /\ InUpsert(c, k, id) <=> id \in Loaded(c)
                     /\ InDelete(c, k, id) <=> id \notin Loaded(c)
                     /\ InUpsert(c, k, id) # InDelete(c, k, id)
                ELSE ~ InUpsert(c, k, id) /\ ~ InDelete(c, k, id)

\* A reconcile of two requested keys returned, one upserted and one deleted.
C5_Witness ==
    \E c \in Callers, k \in Kinds :
        /\ Returned(c, k)
        /\ \E a, b \in Requested(c, k) : InUpsert(c, k, a) /\ InDelete(c, k, b)

\* ---- duplicate markers ----
\* The (kind, id) pairs of c's batch that had two or more markers pending when
\* the sub-cycle read the queue.
Duplicated(c) ==
    {p \in Kinds \X Keys :
        /\ p[2] \in Requested(c, p[1])
        /\ Cardinality({m \in Range(qread[c]) : m.kind = p[1] /\ m.item_id = p[2]}) >= 2}

\* How often id occurs in the batches of the accepted calls for kind k.
Occurrences(c, k, id) ==
    Cardinality({jj \in (1..Len(calls[c])) \X (1..CHUNK_SIZE) :
                    /\ calls[c][jj[1]].kind = k
                    /\ jj[2] <= Len(calls[c][jj[1]].ids)
                    /\ calls[c][jj[1]].ids[jj[2]] = id})
    + Cardinality({j \in 1..Len(calls[c]) :
                    calls[c][j].kind = k /\ id \in ExistingItemIds(calls[c][j].docs)})

\* How many accepted calls for kind k name id.
CallsNaming(c, k, id) ==
    Cardinality({j \in 1..Len(calls[c]) : calls[c][j].kind = k /\ Names(calls[c][j], id)})

\* None of the markers for (k, id) that were pending at the read is left.
AllRemoved(c, k, id) ==
    \A m \in Range(qread[c]) :
        (m.kind = k /\ m.item_id = id) => m \notin Range(queue)

Succeeded(c) == pc[c] = "release" /\ st[c] = "ok" /\ batch[c] # <<>>

\* C6 as claimed: with two markers pending for one (kind, id), a successful
\* sub-cycle has the id once in its index batches and removes both markers.
C6_Original ==
    \A c \in Callers :
        Succeeded(c) =>
            \A p \in Duplicated(c) :
                Occurrences(c, p[1], p[2]) = 1 /\ AllRemoved(c, p[1], p[2])

\* C6, amended: with two markers pending for one (kind, id), a successful
\* sub-cycle names the id in exactly one accepted index call (one upsert or one
\* delete) and removes both markers.
C6_DuplicatesCollapse ==
    \A c \in Callers :
        Succeeded(c) =>
            \A p \in Duplicated(c) :
                CallsNaming(c, p[1], p[2]) = 1 /\ AllRemoved(c, p[1], p[2])

\* A sub-cycle succeeded for an id with two pending markers, one of them beyond
\* the chunk it read.
C6_Witness ==
    \E c \in Callers :
        /\ Succeeded(c)
        /\ \E p \in Duplicated(c) :
            \E m \in Range(qread[c]) \ Range(batch[c]) :
                m.kind = p[1] /\ m.item_id = p[2]

\* ---- the loop of update_index ----
\* C7: update_index returns Ok after a successful sub-cycle that read fewer than
\* CHUNK_SIZE markers and starts another sub-cycle after one that read exactly
\* CHUNK_SIZE; a call that found CHUNK_SIZE + k markers (k < CHUNK_SIZE) at its
\* first read and saw no insert since returns after exactly two sub-cycles.
C7_ChunkTermination ==
    /\ [][\A c \in Callers :
            (pc[c] = "release" /\ st[c] = "ok" /\ pc'[c] # "release") =>
                /\ Len(batch[c]) < CHUNK_SIZE => pc'[c] = "idle"
                /\ Len(batch[c]) = CHUNK_SIZE => pc'[c] = "lock" /\ n'[c] = n[c]]_vars
    /\ [](\A c \in Callers :
            (/\ pc[c] = "release" /\ st[c] = "ok" /\ Len(batch[c]) < CHUNK_SIZE
             /\ first[c][2] >= CHUNK_SIZE /\ first[c][2] < 2 * CHUNK_SIZE
             /\ first[c][1] = nextSeq)
                => n[c] = 2)

\* A call that found CHUNK_SIZE + 1 markers is about to return from its second
\* sub-cycle.
C7_Witness ==
    \E c \in Callers :
        /\ pc[c] = "release" /\ st[c] = "ok" /\ n[c] = 2
        /\ first[c][2] = CHUNK_SIZE + 1 /\ first[c][1] = nextSeq
        /\ batch[c] # <<>>

\* C8: a sub-cycle that read no marker calls no loader and no index client,
\* deletes nothing and is the last of its update_index call, which returns Ok;
\* and a kind without ids in a batch gets no loader call and no index call.
C8_EmptyIsNoOp ==
    /\ \A c \in Callers :
        (pc[c] = "release" /\ st[c] # "readfail" /\ batch[c] = <<>>) =>
            /\ st[c] = "ok"
            /\ calls[c] = <<>> /\ loads[c] = {}
            /\ IsPrefix(qread[c], queue)
            /\ AfterSubCycle(c) = "idle"
            /\ first[c][2] = 0 => n[c] = 1
    /\ \A c \in Callers, k \in Kinds :
        (pc[c] \in InSubCycle \ {"read"} /\ IdsOfKind(batch[c], k) = <<>>) =>
            k \notin loads[c] /\ CallsOf(c, k) = <<>>

\* An update_index call that found the queue empty is about to return from its
\* only sub-cycle.
C8_Witness ==
    \E c \in Callers :
        /\ pc[c] = "release" /\ st[c] = "ok" /\ batch[c] = <<>> /\ n[c] = 1
        /\ qread[c] = <<>> /\ first[c][2] = 0

\* C9: no two callers are inside a sub-cycle (between the lock's acquisition
\* and its release) at once.
C9_OneSubCycleInFlight ==
    /\ Cardinality({c \in Callers : pc[c] \in InSubCycle}) <= 1
    /\ \A c \in Callers : pc[c] \in InSubCycle <=> lock = c

\* One caller is inside a sub-cycle while the other waits for the lock.
C9_Witness ==
    \E c, d \in Callers : pc[c] = "qdel" /\ pc[d] = "lock"


\* ---- eventual consistency ----
\* A step of caller c that does not fail.
Step(c) ==
    \/ Acquire(c) \/ ReadQueue(c) \/ Load(c) \/ DeleteDocs(c) \/ AddDocs(c)
    \/ DeleteMarkers(c) \/ Release(c)

\* Drain cycles keep being run by the daemon (after an error, by the restarted
\* daemon), every caller inside update_index keeps taking steps, and the
\* writers and the failures stop (MaxWrites, MaxFails).
LiveSpec ==
    /\ Init /\ [][Next]_vars
    /\ WF_vars(Start("daemon"))
    /\ \A c \in Callers : WF_vars(Step(c))

\* The index holds a document for a marked entity exactly if the database holds
\* the entity, and the document is the entity's current content.
Consistent == \A p \in marked : index[p[1]][p[2]] = db[p[1]][p[2]]

\* C10: once the writers and the failures have stopped, the system reaches and
\* stays in a state where the queue is empty and the index agrees with the
\* database on every entity that ever had a marker.
C10_EventuallyConsistent == <>[](queue = <<>> /\ Consistent)

\* ---- the end of update_index ----
\* c's sub-cycle has ended Ok and update_index is about to return Ok.
Returning(c) == pc[c] = "release" /\ st[c] = "ok" /\ AfterSubCycle(c) = "idle"

\* No marker was inserted since c's current sub-cycle read the queue.
NoInsertSinceRead(c) == nextSeq = first[c][3]

\* C11: when update_index is about to return Ok and no marker was inserted
\* during its final sub-cycle, the queue holds no marker.
C11_StopsOnEmptyQueue ==
    \A c \in Callers : (Returning(c) /\ NoInsertSinceRead(c)) => queue = <<>>

\* An update_index call is about to return from its second sub-cycle, which
\* read and removed the rest of the queue.
C11_Witness ==
    \E c \in Callers :
        /\ Returning(c) /\ NoInsertSinceRead(c)
        /\ n[c] = 2 /\ batch[c] # <<>>

\* ---- update_index_daemon ----
\* Duration::saturating_sub with its clamp dropped.
PlainSub(a, b) == a - b

\* Duration::saturating_sub
SaturatingSub(a, b) == IF a >= b THEN a - b ELSE 0

DaemonInit == QueueInit /\ \E i \in 0..MaxInterval : DaemonVarsInit(i)

\* let loop_started_at = Instant::now();
LoopStart ==
    /\ dpc = "top"
    /\ iters < MaxIter
    /\ prev_started_at' = loop_started_at
    /\ loop_started_at' = now
    /\ iters' = iters + 1
    /\ dpc' = "drain"
    /\ UNCHANGED <<now, update_interval, drained_at, next_update_in, result, sleeps>>
    /\ UNCHANGED qvars

\* update_index(meili, db).await returned Ok after d units of time.
UpdateIndexOk(d) ==
    /\ dpc = "drain"
    /\ now' = now + d
    /\ drained_at' = now + d
    /\ result' = "ok"
    /\ dpc' = "calc"
    /\ UNCHANGED <<update_interval, loop_started_at, prev_started_at,
                   next_update_in, iters, sleeps>>
    /\ UNCHANGED qvars

\* An Err of update_index that the loop ignores.
UpdateIndexErrIgnored(d) ==
    /\ dpc = "drain"
    /\ now' = now + d
    /\ drained_at' = now + d
    /\ result' = "err"
    /\ dpc' = "calc"
    /\ UNCHANGED <<update_interval, loop_started_at, prev_started_at,
                   next_update_in, iters, sleeps>>
    /\ UNCHANGED qvars

\* update_index(meili, db).await? got Err after d units of time: the daemon
\* returns it.
UpdateIndexErr(d) ==
    /\ dpc = "drain"
    /\ now' = now + d
    /\ drained_at' = now + d
    /\ result' = "err"
    /\ dpc' = "returned"
    /\ UNCHANGED <<update_interval, loop_started_at, prev_started_at,
                   next_update_in, iters, sleeps>>
    /\ UNCHANGED qvars

\* let next_update_in = update_interval.saturating_sub(loop_started_at.elapsed());
ComputeSleep ==
    /\ dpc = "calc"
    /\ next_update_in' = SaturatingSub(update_interval, now - loop_started_at)
    /\ dpc' = "sleep"
    /\ UNCHANGED <<now, update_interval, loop_started_at, prev_started_at,
                   drained_at, result, iters, sleeps>>
    /\ UNCHANGED qvars

\* tokio::time::sleep(next_update_in).await, which wakes on time or late.
Sleep(late) ==
    /\ dpc = "sleep"
    /\ now' = now + next_update_in + late
    /\ sleeps' = sleeps + 1
    /\ dpc' = "top"
    /\ UNCHANGED <<update_interval, loop_started_at, prev_started_at,
                   drained_at, next_update_in, result, iters>>
    /\ UNCHANGED qvars

DaemonNext ==
    \/ LoopStart
    \/ \E d \in 0..MaxDrain : UpdateIndexOk(d)
    \/ \E d \in 0..MaxDrain : UpdateIndexErr(d)
    \/ ComputeSleep
    \/ \E late \in 0..1 : Sleep(late)

DaemonSpec == DaemonInit /\ [][DaemonNext]_vars

\* The time the iteration's update_index call took.
Draining == drained_at - loop_started_at

\* C12: the sleep after a drain is update_interval minus the time elapsed since
\* the iteration started, zero when the drain took update_interval or longer and
\* never negative; and two consecutive iterations start at least update_interval
\* apart.
C12_SleepIsClampedRemainder ==
    /\ dpc = "sleep" =>
        /\ next_update_in >= 0
        /\ Draining < update_interval => next_update_in = update_interval - Draining
        /\ Draining >= update_interval => next_update_in = 0
    /\ iters >= 2 => loop_started_at - prev_started_at >= update_interval

\* The second iteration has started after a drain that took longer than the
\* interval and so was followed by a sleep of zero.
C12_Witness ==
    /\ iters = 2 /\ dpc = "drain"
    /\ update_interval > 0
    /\ drained_at - prev_started_at > update_interval
    /\ next_update_in = 0

\* C13: the daemon has returned exactly if update_index returned Err; it then
\* has not slept after that call and takes no further step; and every Ok of
\* update_index is followed by a sleep and then by the next iteration.
C13_OnlyAnErrorEndsTheLoop ==
    /\ dpc = "returned" <=> result = "err"
    /\ dpc = "returned" => sleeps = iters - 1 /\ ~ ENABLED DaemonNext
    /\ dpc \in {"drain", "calc", "sleep"} => sleeps = iters - 1
    /\ dpc = "top" => sleeps = iters
    /\ dpc \in {"calc", "sleep"} => result = "ok"
    /\ dpc = "top" /\ iters > 0 => result = "ok" /\ (iters < MaxIter => ENABLED LoopStart)

\* The daemon has returned the Err of its second update_index call.
C13_Witness ==
    dpc = "returned" /\ iters = 2 /\ sleeps = 1

\* ---- what the queue delete removes ----
\* Markers inserted since c's current sub-cycle read the queue.
InsertedSinceRead(c) == nextSeq - first[c][3]

\* C14: after the queue delete of a successful sub-cycle, the markers gone from
\* the queue are exactly the rows the sub-cycle read: every row of the batch is
\* gone, every other row that was pending at the read is still there, and so is
\* every marker inserted since the read.
C14_DeletesExactlyTheBatch ==
    \A c \in Callers :
        Succeeded(c) =>
            /\ Removed(qread[c], queue) = Range(batch[c])
            /\ Len(queue) = Len(qread[c]) - Len(batch[c]) + InsertedSinceRead(c)

\* ---- a failing loader ----
\* C15 as claimed: a sub-cycle in which an entity load failed has issued no
\* index call for the kind of that load and has left both indexes as they were
\* when it began.
C15_Original ==
    \A c \in Callers :
        st[c] = "loadfail" =>
            /\ CallsOf(c, cur[c]) = <<>>
            /\ index = ixread[c]

\* C15, amended: a sub-cycle in which the entity load of a kind failed has
\* issued no index call for that kind and has left that kind's index as it was;
\* when the load that failed is the realm load, the first of the two, both
\* indexes are as they were.
C15_LoaderFailureKeepsItsIndex ==
    \A c \in Callers :
        st[c] = "loadfail" =>
            /\ CallsOf(c, cur[c]) = <<>>
            /\ index[cur[c]] = ixread[c][cur[c]]
            /\ cur[c] = "realm" => calls[c] = <<>> /\ index = ixread[c]

\* The event load failed after the realm calls of the same sub-cycle had
\* changed the realm index.
C15_Witness ==
    \E c \in Callers :
        /\ st[c] = "loadfail" /\ cur[c] = "event"
        /\ index["realm"] # ixread[c]["realm"]
        /\ index["event"] = ixread[c]["event"]

\* ---- the order of the two index calls ----
\* The ids update will delete for the kind c is reconciling.
Missing(c) == DeletedItems(IdsOfKind(batch[c], cur[c]), items[c])

\* The delete call of the kind c was reconciling is the call that failed.
DeleteFailed(c) ==
    /\ st[c] = "indexfail"
    /\ Missing(c) # <<>>
    /\ CallsWithOp(c, cur[c], "delete") = <<>>

\* C16: in one reconciliation the delete call is accepted before the upsert
\* call is issued: when update is about to issue the upsert its delete, if it
\* had ids to delete, is already accepted, and no upsert of a kind precedes a
\* delete of that kind; when the delete call fails, no upsert is issued for
\* that kind and the sub-cycle ends with the index failure.
C16_DeleteThenUpsert ==
    \A c \in Callers :
        /\ (pc[c] = "add" /\ Missing(c) # <<>>) =>
                /\ Len(CallsWithOp(c, cur[c], "delete")) = 1
                /\ CallsWithOp(c, cur[c], "delete")[1].ids = Missing(c)
                /\ CallsWithOp(c, cur[c], "add") = <<>>
        /\ \A k \in Kinds :
                LET cs == CallsOf(c, k)
                IN  \A i, j \in 1..Len(cs) :
                        (cs[i].op = "delete" /\ cs[j].op = "add") => i < j
        /\ DeleteFailed(c) =>
                /\ CallsWithOp(c, cur[c], "add") = <<>>
                /\ pc[c] = "release"

\* The delete call of a reconciliation with missing and present ids failed.
C16_Witness ==
    \E c \in Callers : DeleteFailed(c) /\ items[c] # {}

\* ---- the count of deleted rows ----
\* `affected`: the rows the queue delete of c's sub-cycle removed (0 before it,
\* and when the sub-cycle did not get to read the queue).
Affected(c) ==
    IF first[c][3] = 0 THEN 0
    ELSE Len(qread[c]) + InsertedSinceRead(c) - Len(queue)

\* The queue delete of c's sub-cycle removed a number of rows other than the
\* number read.
Mismatch(c) == pc[c] = "release" /\ Affected(c) > 0 /\ Affected(c) # Count(batch[c])

\* C17: a sub-cycle whose queue delete removed a number of rows other than the
\* number it read still ends Ok, its deletions stay, and update_index goes on
\* by the number read alone: it returns if that is below CHUNK_SIZE and starts
\* another sub-cycle otherwise.
C17_MismatchIsNotFatal ==
    \A c \in Callers :
        Mismatch(c) =>
            /\ st[c] = "ok"
            /\ Range(batch[c]) \cap Range(queue) = {}
            /\ AfterSubCycle(c) =
                    (IF Count(batch[c]) < CHUNK_SIZE THEN "idle" ELSE "lock")

\* A sub-cycle read a full chunk and its delete removed more rows than that.
C17_Witness ==
    \E c \in Callers :
        /\ Mismatch(c)
        /\ Count(batch[c]) = CHUNK_SIZE
        /\ Affected(c) > CHUNK_SIZE

\* ---- the release of the lock ----
\* C18: the lock is held only by a caller inside a sub-cycle: once a sub-cycle
\* has ended, by success, by the empty-queue return or by a failure of the queue
\* read, a loader, an index call or the queue delete, the lock is free, and a
\* caller waiting for it while no sub-cycle is in flight can acquire it.
C18_LockReleasedOnEveryPath ==
    /\ \A c \in Callers : pc[c] \notin InSubCycle => lock # c
    /\ (\A c \in Callers : pc[c] \notin InSubCycle) => lock = NoCaller
    /\ \A c \in Callers :
        (pc[c] = "lock" /\ \A d \in Callers : pc[d] \notin InSubCycle)
            => ENABLED Acquire(c)

\* After a sub-cycle has failed, a caller holds the lock for a new sub-cycle
\* while the other caller is outside update_index.
C18_Witness ==
    \E c, d \in Callers :
        /\ fails > 0
        /\ lock = c /\ pc[c] = "read"
        /\ d # c /\ pc[d] = "idle"

\* ---- kinds ----
\* c's current sub-cycle has read the queue.
HasRead(c) == first[c][3] > 0

\* The markers for (k, id) that were pending when c's sub-cycle read the queue.
PendingAtRead(c, k, id) == {m \in Range(qread[c]) : m.kind = k /\ m.item_id = id}

\* C19: a sub-cycle that did not read a marker for (k, id) leaves every pending
\* marker for (k, id) in the queue, issues no call to k's index that names id
\* and leaves k's document for id alone, whatever it read for id under the other
\* kind; every id in a call to k's index was read as an id of kind k.
C19_KindExact ==
    \A c \in Callers :
        HasRead(c) =>
            /\ \A k \in Kinds, id \in Keys :
                    id \notin Requested(c, k) =>
                        /\ PendingAtRead(c, k, id) \subseteq Range(queue)
                        /\ ~ InUpsert(c, k, id) /\ ~ InDelete(c, k, id)
                        /\ index[k][id] = ixread[c][k][id]
            /\ \A j \in 1..Len(calls[c]) :
                    Range(calls[c][j].ids) \cup ExistingItemIds(calls[c][j].docs)
                        \subseteq Requested(c, calls[c][j].kind)

\* A sub-cycle that read a realm marker for an id, and no event marker for it,
\* has run its queue delete while an event marker for that id was pending.
C19_Witness ==
    \E c \in Callers, id \in Keys :
        /\ Succeeded(c)
        /\ id \in Requested(c, "realm") /\ id \notin Requested(c, "event")
        /\ PendingAtRead(c, "event", id) # {}
        /\ InUpsert(c, "realm", id)

\* ---- termination of update_index ----
\* Every caller inside update_index keeps taking steps, and a caller that
\* finds the lock free again and again gets it; the writers and the failures
\* stop (MaxWrites, MaxFails).
TermSpec ==
    /\ Init /\ [][Next]_vars
    /\ \A c \in Callers : SF_vars(Step(c))

\* C20: a sub-cycle's queue delete never removes fewer rows than the sub-cycle
\* read, and every update_index call returns: no caller stays inside
\* update_index for ever.
C20_DrainTerminates ==
    /\ [](\A c \in Callers : Succeeded(c) => Affected(c) >= Count(batch[c]))
    /\ \A c \in Callers : []<>(pc[c] = "idle")

\* An update_index call is in its second sub-cycle, after a first one that
\* removed a full chunk, with markers inserted while it ran.
C20_Witness ==
    \E c \in Callers :
        /\ Succeeded(c) /\ n[c] = 2
        /\ first[c][2] >= CHUNK_SIZE
        /\ first[c][1] < nextSeq
        /\ Affected(c) >= Count(batch[c])

====
